---- MODULE Spec2Model ----
(***************************************************************************)
(* generateCodeFromPrompt (src/src/services/api.ts): the streaming decoder *)
(* and chunk accumulator.                                                  *)
(*                                                                         *)
(* Text is a sequence of units.  A unit is one character ("d", ":", " ",   *)
(* "/", the line feed "\n") or an indivisible word ("typescript", "A").    *)
(* Inside a JSON payload the line feed of a string is the escape unit      *)
(* "\\n", as on the wire; JSON.parse turns it into "\n".                    *)
(***************************************************************************)
EXTENDS Integers, Sequences, FiniteSets, TLC

VARIABLES req, log, ui

vars == <<req, log, ui>>

\* ------------------------------------------------------------------ bounds

\* Lines the server sends in one response.
MaxLines == 2
\* Units of a short read() fragment (a read may also deliver all that is left).
MaxFrag == 2
\* The count of fragments a line arrived in is kept up to this many.
PiecesCap == 3

\* ------------------------------------------------------- string primitives

NL == "\n"
EscNL == "\\n"
Slash == "/"

IsWhitespace(u) == u \in {" ", "\t", "\r", NL}

RECURSIVE trimStart(_)
trimStart(s) ==
  IF s # <<>> /\ IsWhitespace(Head(s)) THEN trimStart(Tail(s)) ELSE s

RECURSIVE trimEnd(_)
trimEnd(s) ==
  IF s # <<>> /\ IsWhitespace(s[Len(s)])
  THEN trimEnd(SubSeq(s, 1, Len(s) - 1))
  ELSE s

\* String.prototype.trim
trim(s) == trimEnd(trimStart(s))

\* String.prototype.startsWith
startsWith(s, p) == Len(s) >= Len(p) /\ SubSeq(s, 1, Len(p)) = p

\* String.prototype.slice(n)
slice(s, n) == SubSeq(s, n + 1, Len(s))

\* String.prototype.split('\n'): at least one segment, the last one being the
\* text after the last line feed.
RECURSIVE split(_)
split(s) ==
  IF \A i \in 1..Len(s) : s[i] # NL
  THEN <<s>>
  ELSE LET i == CHOOSE k \in 1..Len(s) :
                  s[k] = NL /\ \A j \in 1..(k - 1) : s[j] # NL
       IN  <<SubSeq(s, 1, i - 1)>> \o split(SubSeq(s, i + 1, Len(s)))

\* Array.prototype.join('\n')
RECURSIVE join(_)
join(segs) ==
  IF segs = <<>> THEN <<>>
  ELSE IF Len(segs) = 1 THEN segs[1]
  ELSE segs[1] \o <<NL>> \o join(Tail(segs))

\* A replace that removes nothing.
stripLeadingSlashNever(name) == name

\* filename.replace(/^\//, '')
stripLeadingSlash(name) ==
  IF name # <<>> /\ name[1] = Slash THEN Tail(name) ELSE name

\* ------------------------------------------------------------ JSON payload

\* The value of a property that is not there, and of Map.get on a missing key.
Undefined == <<"<undefined>">>

Typescript == <<"typescript">>

unescapeUnit(u) == IF u = EscNL THEN NL ELSE u
escapeUnit(u) == IF u = NL THEN EscNL ELSE u

\* The decoded value of a JSON string.
unescape(s) == [i \in 1..Len(s) |-> unescapeUnit(s[i])]

SyntaxError == [kind |-> "SyntaxError", code |-> Undefined, file |-> Undefined]

\* JSON.parse of a payload.  The payload {"code":c,"file":f} is written
\* {c,f}; {c} is an object with no file property and {} one with no property.
\* Any other text is not JSON.
JSONparse(s) ==
  IF Len(s) < 2 \/ s[1] # "{" \/ s[Len(s)] # "}" THEN SyntaxError
  ELSE
    LET inner == SubSeq(s, 2, Len(s) - 1)
        commas == {i \in 1..Len(inner) : inner[i] = ","}
    IN  IF \E i \in 1..Len(inner) : inner[i] \in {"{", "}"} THEN SyntaxError
        ELSE IF inner = <<>>
          THEN [kind |-> "object", code |-> Undefined, file |-> Undefined]
        ELSE IF commas = {}
          THEN [kind |-> "object", code |-> unescape(inner), file |-> Undefined]
        ELSE IF Cardinality(commas) = 1
          THEN LET c == CHOOSE i \in commas : TRUE
               IN  [kind |-> "object",
                    code |-> unescape(SubSeq(inner, 1, c - 1)),
                    file |-> unescape(SubSeq(inner, c + 1, Len(inner)))]
        ELSE SyntaxError

\* ------------------------------------------------------- Map<string,string>

\* A Map is the sequence of its entries in insertion order, keys distinct.
MapHas(m, k) == \E i \in 1..Len(m) : m[i].filename = k

\* Map.prototype.get
MapGet(m, k) ==
  IF MapHas(m, k)
  THEN m[CHOOSE i \in 1..Len(m) : m[i].filename = k].content
  ELSE Undefined

\* Map.prototype.set: an existing key keeps its place.
MapSet(m, k, v) ==
  IF MapHas(m, k)
  THEN [i \in 1..Len(m) |->
          IF m[i].filename = k THEN [filename |-> k, content |-> v] ELSE m[i]]
  ELSE Append(m, [filename |-> k, content |-> v])

\* ------------------------------------------------- generateCodeFromPrompt

DataPrefix == <<"d", "a", "t", "a", ":", " ">>
CommentMarker == <<Slash, Slash>>

ParseErrorMessage == "Failed to parse server response"
NoBodyMessage == "No response body received"
NetworkErrorMessage == "NetworkError"

NoChunk == [kind |-> "none", code |-> Undefined, file |-> Undefined]

\* A resolution that looks at the file property before the first line.
resolveFilenameSentinelFirst(chunk) ==
  LET firstLine == split(chunk.code)[1]
  IN  IF chunk.file = Typescript
      THEN [skip |-> TRUE, filename |-> chunk.file]
      ELSE IF firstLine # <<>> /\ startsWith(firstLine, CommentMarker)
      THEN [skip |-> FALSE, filename |-> trim(slice(firstLine, 2))]
      ELSE [skip |-> FALSE, filename |-> chunk.file]

\* A resolution without the `continue` for an undeterminable filename.
resolveFilenameNoSkip(chunk) ==
  LET firstLine == split(chunk.code)[1]
  IN  IF firstLine # <<>> /\ startsWith(firstLine, CommentMarker)
      THEN [skip |-> FALSE, filename |-> trim(slice(firstLine, 2))]
      ELSE [skip |-> FALSE, filename |-> chunk.file]

\* The filename of a chunk: that of the first line's comment, else the file
\* property; skip is the `continue` taken for an undeterminable filename.
resolveFilename(chunk) ==
  LET firstLine == split(chunk.code)[1]
  IN  IF firstLine # <<>> /\ startsWith(firstLine, CommentMarker)
      THEN [skip |-> FALSE, filename |-> trim(slice(firstLine, 2))]
      ELSE IF chunk.file = Typescript
      THEN [skip |-> TRUE, filename |-> chunk.file]
      ELSE [skip |-> FALSE, filename |-> chunk.file]

\* chunk.code.split('\n').slice(1).join('\n')
contentOf(chunk) == join(Tail(split(chunk.code)))

\* A set that forgets the current content.
accumulateOverwrite(files, filename, content) == MapSet(files, filename, content)

\* files.set(filename, (files.get(filename) || '') + content)
accumulate(files, filename, content) ==
  LET got == MapGet(files, filename)
      currentContent == IF got = Undefined \/ got = <<>> THEN <<>> ELSE got
  IN  MapSet(files, filename, currentContent \o content)

\* Array.from(files.entries()).map(...): the snapshot handed to the caller.
toGeneratedFiles(files) ==
  [i \in 1..Len(files) |->
     [filename |-> stripLeadingSlash(files[i].filename),
      content |-> files[i].content]]

\* filename.replace throws a TypeError on a key that is undefined.
snapshotThrows(files) == MapHas(files, Undefined)

\* A callback called twice for one event.
onProgressTwice(progress, currentFiles, callback) ==
  IF callback = "absent"
  THEN [progress |-> progress, calls |-> 0, thrown |-> FALSE]
  ELSE [progress |-> Append(Append(progress, currentFiles), currentFiles),
        calls |-> 2, thrown |-> callback = "throws"]

\* onProgress?.(currentFiles): no call without a callback; a callback returns
\* or throws.
onProgress(progress, currentFiles, callback) ==
  IF callback = "absent"
  THEN [progress |-> progress, calls |-> 0, thrown |-> FALSE]
  ELSE [progress |-> Append(progress, currentFiles), calls |-> 1,
        thrown |-> callback = "throws"]

\* A filter that takes the field name without the space after it.
isPayloadLineLoose(trimmedLine) ==
  startsWith(trimmedLine, <<"d", "a", "t", "a", ":">>)

\* The lines that pass `if (!trimmedLine || !trimmedLine.startsWith('data: '))`.
isPayloadLine(trimmedLine) ==
  trimmedLine # <<>> /\ startsWith(trimmedLine, DataPrefix)

Entry(line, chunk, outcome, before, after, calls) ==
  [line |-> line, chunk |-> chunk, outcome |-> outcome,
   before |-> before, after |-> after, calls |-> calls]

\* One turn of the loop over the lines of a fragment.  st holds the table, the
\* snapshots handed to onProgress so far, the record of every line handled
\* and whether an error has been thrown out of the loop.
handleLine(st, line, callback) ==
  LET trimmedLine == trim(line)
      jsonStr == trim(slice(trimmedLine, 5))
      chunk == JSONparse(jsonStr)
      target == resolveFilename(chunk)
      updated == accumulate(st.files, target.filename, contentOf(chunk))
      note(ch, outcome, after, calls) ==
        Append(st.trace, Entry(line, ch, outcome, st.files, after, calls))
  IN  IF ~isPayloadLine(trimmedLine)
      THEN [st EXCEPT !.trace = note(NoChunk, "ignored", st.files, 0)]
      ELSE IF jsonStr = <<>>
      THEN [st EXCEPT !.trace = note(NoChunk, "ignored", st.files, 0)]
      ELSE IF chunk.kind = "SyntaxError" \/ chunk.code = Undefined
      THEN [st EXCEPT !.trace = note(chunk, "error", st.files, 0),
                      !.thrown = TRUE]
      ELSE IF target.skip
      THEN [st EXCEPT !.trace = note(chunk, "discarded", st.files, 0)]
      ELSE IF snapshotThrows(updated)
      THEN [st EXCEPT !.files = updated,
                      !.trace = note(chunk, "error", updated, 0),
                      !.thrown = TRUE]
      ELSE LET told == onProgress(st.progress, toGeneratedFiles(updated), callback)
           IN  [st EXCEPT !.files = updated,
                          !.progress = told.progress,
                          !.trace = note(chunk,
                                         IF told.thrown THEN "error" ELSE "applied",
                                         updated, told.calls),
                          !.thrown = told.thrown]

\* for (const line of lines): left by the first error thrown.
RECURSIVE forLines(_, _, _)
forLines(st, lines, callback) ==
  IF lines = <<>> \/ st.thrown THEN st
  ELSE forLines(handleLine(st, Head(lines), callback), Tail(lines), callback)

\* reader.releaseLock()
releaseLock(r) == [r EXCEPT !.locked = FALSE, !.releases = @ + 1]

\* An error that leaves the function past the release.
throwFromTryNoRelease(r, message) ==
  [r EXCEPT !.pc = "failed", !.error = message]

\* The finally block, then the error leaves the function.
throwFromTry(r, message) ==
  [releaseLock(r) EXCEPT !.pc = "failed", !.error = message]

\* A return of the table's entries as they are.
returnFinalFilesRaw(r) ==
  [releaseLock(r) EXCEPT !.pc = "done", !.returned = TRUE, !.result = r.files]

\* A return that first handles what is left in the buffer as a last line.
returnFinalFilesFlush(r) ==
  LET st == forLines([files |-> r.files, progress |-> r.progress,
                      trace |-> r.trace, thrown |-> FALSE],
                     IF r.buffer = <<>> THEN <<>> ELSE <<r.buffer>>, r.callback)
      flushed == [r EXCEPT !.files = st.files, !.progress = st.progress,
                           !.trace = st.trace]
  IN  IF st.thrown
      THEN [releaseLock(flushed) EXCEPT !.pc = "failed", !.error = ParseErrorMessage]
      ELSE [releaseLock(flushed) EXCEPT !.pc = "done", !.returned = TRUE,
                                        !.result = toGeneratedFiles(st.files)]

\* The loop's exit on done, the finally block and the return statement.
returnFinalFiles(r) ==
  [releaseLock(r) EXCEPT !.pc = "done", !.returned = TRUE,
                         !.result = toGeneratedFiles(r.files)]

\* A read that does not keep the unfinished line of the read before.
readFragmentDropBuffer(r, fragment) ==
  LET parts == split(fragment)
      lines == SubSeq(parts, 1, Len(parts) - 1)
      st == forLines([files |-> r.files, progress |-> r.progress,
                      trace |-> r.trace, thrown |-> FALSE],
                     lines, r.callback)
      next == [r EXCEPT !.buffer = parts[Len(parts)],
                        !.decoded = @ \o lines,
                        !.files = st.files,
                        !.progress = st.progress,
                        !.trace = st.trace]
  IN  IF st.thrown
      THEN [releaseLock(next) EXCEPT !.pc = "failed", !.error = ParseErrorMessage]
      ELSE next

\* One resolved read() with a fragment, up to the next read().
readFragment(r, fragment) ==
  LET text == r.buffer \o fragment
      parts == split(text)
      lines == SubSeq(parts, 1, Len(parts) - 1)
      st == forLines([files |-> r.files, progress |-> r.progress,
                      trace |-> r.trace, thrown |-> FALSE],
                     lines, r.callback)
      pieces == IF r.pieces < PiecesCap THEN r.pieces + 1 ELSE PiecesCap
      next == [r EXCEPT !.buffer = parts[Len(parts)],
                        !.decoded = @ \o lines,
                        !.pieces = IF Len(parts) > 1
                                   THEN (IF parts[Len(parts)] = <<>> THEN 0 ELSE 1)
                                   ELSE pieces,
                        !.spread = IF Len(parts) > 1 /\ pieces > @
                                   THEN pieces ELSE @,
                        !.files = st.files,
                        !.progress = st.progress,
                        !.trace = st.trace]
  IN  IF st.thrown THEN throwFromTry(next, ParseErrorMessage) ELSE next

\* ------------------------------------------------------------ the server

escape(s) == [i \in 1..Len(s) |-> escapeUnit(s[i])]

\* JSON.stringify of a chunk, in the payload's notation.
Payload(code, file) == <<"{">> \o escape(code) \o <<",">> \o escape(file) \o <<"}">>
PayloadNoFile(code) == <<"{">> \o escape(code) \o <<"}">>

CodeMarkerA == <<Slash, Slash, " ", "A", NL, "x">>
CodeMarkerSlashA == <<Slash, Slash, Slash, "A", NL, "y">>
CodePlain == <<"y">>
CodeTwoLines == <<"y", NL, "z">>

LineMarker == DataPrefix \o Payload(CodeMarkerA, Typescript)
LineDiscard == DataPrefix \o Payload(CodePlain, Typescript)
LinePlain == <<" ">> \o DataPrefix \o <<" ">> \o Payload(CodeTwoLines, <<"A">>) \o <<"\r">>
LineSlash == DataPrefix \o Payload(CodeMarkerSlashA, <<"A">>)
LineMalformed == DataPrefix \o <<"{">>
LineNoFile == DataPrefix \o PayloadNoFile(CodeMarkerA)
LineNoFilePlain == DataPrefix \o PayloadNoFile(CodePlain)
LineBlank == <<>>

Catalog ==
  {LineMarker, LineDiscard, LinePlain, LineSlash, LineMalformed, LineNoFile,
   LineNoFilePlain, LineBlank}

Scripts(n) == UNION {[1..k -> Catalog] : k \in 0..n}

\* The response body: the lines of the script, each but possibly the last
\* ended by a line feed.
Wire(script, terminated) ==
  join(script) \o (IF terminated /\ script # <<>> THEN <<NL>> ELSE <<>>)

Callbacks == {"absent", "returns", "throws"}
\* The body of an error response: not JSON, JSON without a detail, or JSON
\* with a detail, which may be the empty string.
ErrorBodies == {"notJSON", "noDetail", "emptyDetail", "detail"}
DetailText == "Prompt rejected"
StatusTexts == {"Not Found", "Internal Server Error"}

\* What fetch resolves with: response.ok, whether response.body is there,
\* response.statusText and what response.json() gives.
Responses ==
  [ok : {TRUE}, body : BOOLEAN, statusText : {"OK"}, json : {"notJSON"}]
    \cup [ok : {FALSE}, body : BOOLEAN, statusText : StatusTexts, json : ErrorBodies]

ReqIds == {1, 2}

\* ------------------------------------------------------------------ state

\* No Preview component is rendered.
NoPreview == [mounted |-> FALSE]

Idle(wire, callback) ==
  [pc |-> "idle", wire |-> wire, callback |-> callback, pos |-> 0, fetches |-> 0,
   buffer |-> <<>>, files |-> <<>>, acquired |-> FALSE, locked |-> FALSE,
   releases |-> 0, pieces |-> 0, spread |-> 0,
   decoded |-> <<>>, trace |-> <<>>, progress |-> <<>>,
   error |-> "", returned |-> FALSE, result |-> <<>>,
   response |-> [ok |-> TRUE, body |-> TRUE, statusText |-> "OK",
                 json |-> "notJSON"]]

Init ==
  /\ \E script \in Scripts(MaxLines), terminated \in BOOLEAN, cb \in Callbacks :
       req = [id \in ReqIds |->
                IF id = 1 THEN Idle(Wire(script, terminated), cb)
                ELSE Idle(<<>>, "absent")]
  /\ log = <<>>
  /\ ui = NoPreview

\* The call: the request is sent.
Start(id) ==
  /\ req[id].pc = "idle"
  /\ req' = [req EXCEPT ![id].pc = "fetching", ![id].fetches = @ + 1]
  /\ log' = Append(log, [ev |-> "start", id |-> id])
  /\ UNCHANGED ui

\* `Failed to generate code: ${response.statusText}`
withStatusText(statusText) ==
  IF statusText = "Not Found" THEN "Failed to generate code: Not Found"
  ELSE IF statusText = "Internal Server Error"
  THEN "Failed to generate code: Internal Server Error"
  ELSE "Failed to generate code: OK"

\* await response.json().catch(() => null), then errorData?.detail
detailOf(response) ==
  IF response.json = "detail" THEN DetailText
  ELSE IF response.json = "emptyDetail" THEN ""
  ELSE "undefined"

\* errorData?.detail || `Failed to generate code: ${response.statusText}`
errorMessage(response) ==
  IF detailOf(response) \in {"undefined", ""}
  THEN withStatusText(response.statusText)
  ELSE detailOf(response)

\* A check of the response that lets an error status through.
receiveAnyStatus(r, response) ==
  IF ~response.body
  THEN [r EXCEPT !.pc = "failed", !.error = NoBodyMessage]
  ELSE [r EXCEPT !.pc = "reading", !.acquired = TRUE, !.locked = TRUE]

\* The checks of the response and getReader(): lines 36-51.
receive(r, response) ==
  IF ~response.ok
  THEN [r EXCEPT !.pc = "failed", !.error = errorMessage(response)]
  ELSE IF ~response.body
  THEN [r EXCEPT !.pc = "failed", !.error = NoBodyMessage]
  ELSE [r EXCEPT !.pc = "reading", !.acquired = TRUE, !.locked = TRUE]

\* fetch resolves.
Respond(id) ==
  /\ req[id].pc = "fetching"
  /\ \E response \in Responses :
       req' = [req EXCEPT ![id] = [receive(@, response) EXCEPT !.response = response]]
  /\ UNCHANGED <<log, ui>>

Calls(n, id) == [i \in 1..n |-> [ev |-> "progress", id |-> id]]

\* read() resolves with a fragment of n units.
Read(id) ==
  /\ req[id].pc = "reading"
  /\ UNCHANGED ui
  /\ \E n \in (1..MaxFrag) \cup {Len(req[id].wire) - req[id].pos} :
       /\ n >= 1
       /\ req[id].pos + n <= Len(req[id].wire)
       /\ LET r == req[id]
              fragment == SubSeq(r.wire, r.pos + 1, r.pos + n)
              after == readFragment([r EXCEPT !.pos = @ + n],
                                    fragment)
          IN  /\ req' = [req EXCEPT ![id] = after]
              /\ log' = log \o Calls(Len(after.progress) - Len(r.progress), id)

\* read() resolves with done once the body has been delivered.
ReadDone(id) ==
  /\ req[id].pc = "reading"
  /\ req[id].pos = Len(req[id].wire)
  /\ req' = [req EXCEPT ![id] = returnFinalFiles(@)]
  /\ UNCHANGED <<log, ui>>

\* read() rejects: the connection broke.
ReadReject(id) ==
  /\ req[id].pc = "reading"
  /\ req' = [req EXCEPT ![id] =
               throwFromTry(@, NetworkErrorMessage)]
  /\ UNCHANGED <<log, ui>>

Next ==
  \/ Start(1)
  \/ Respond(1)
  \/ Read(1)
  \/ ReadDone(1)
  \/ ReadReject(1)

Spec == Init /\ [][Next]_vars

\* ------------------------------------------------------------ properties

\* The request the single-stream specification follows.
r1 == req[1]

\* The text after the first line feed of a string; nothing when there is none.
RestAfterFirstLine(code) ==
  IF \E i \in 1..Len(code) : code[i] = NL
  THEN LET i == CHOOSE k \in 1..Len(code) :
                  code[k] = NL /\ \A j \in 1..(k - 1) : code[j] # NL
       IN  SubSeq(code, i + 1, Len(code))
  ELSE <<>>

\* The first line of a string.
FirstLineOf(code) ==
  IF \E i \in 1..Len(code) : code[i] = NL
  THEN LET i == CHOOSE k \in 1..Len(code) :
                  code[k] = NL /\ \A j \in 1..(k - 1) : code[j] # NL
       IN  SubSeq(code, 1, i - 1)
  ELSE code

HasMarker(code) == Len(code) >= 2 /\ code[1] = Slash /\ code[2] = Slash

\* A string without the blanks around it.
Unpadded(s) ==
  IF \A i \in 1..Len(s) : IsWhitespace(s[i]) THEN <<>>
  ELSE LET a == CHOOSE i \in 1..Len(s) :
                  ~IsWhitespace(s[i]) /\ \A j \in 1..(i - 1) : IsWhitespace(s[j])
           b == CHOOSE i \in 1..Len(s) :
                  ~IsWhitespace(s[i]) /\ \A j \in (i + 1)..Len(s) : IsWhitespace(s[j])
       IN  SubSeq(s, a, b)

\* The filename an event is addressed to.
AddressedTo(chunk) ==
  IF HasMarker(chunk.code)
  THEN Unpadded(SubSeq(FirstLineOf(chunk.code), 3, Len(FirstLineOf(chunk.code))))
  ELSE chunk.file

\* The events accumulated so far, in arrival order.
Applied(r) == SelectSeq(r.trace, LAMBDA e : e.outcome = "applied")

RECURSIVE BodiesFor(_, _)
BodiesFor(events, name) ==
  IF events = <<>> THEN <<>>
  ELSE (IF AddressedTo(Head(events).chunk) = name
        THEN RestAfterFirstLine(Head(events).chunk.code) ELSE <<>>)
       \o BodiesFor(Tail(events), name)

Keys(m) == {m[i].filename : i \in 1..Len(m)}

\* C1: while no event has failed, the table holds exactly the filenames the
\* accumulated events were addressed to, each once, and the content of each is
\* the concatenation, in arrival order, of the bodies (code without its first
\* line) of the accumulated events addressed to it.
C1_ContentIsConcatenation ==
  r1.error # ParseErrorMessage =>
    /\ Keys(r1.files) =
         {AddressedTo(Applied(r1)[i].chunk) : i \in 1..Len(Applied(r1))}
    /\ \A i, j \in 1..Len(r1.files) :
         r1.files[i].filename = r1.files[j].filename => i = j
    /\ \A i \in 1..Len(r1.files) :
         r1.files[i].content = BodiesFor(Applied(r1), r1.files[i].filename)

\* Two events with different bodies were accumulated into the same file.
C1_Witness ==
  /\ r1.files = <<[filename |-> <<"A">>, content |-> <<"x", "z">>]>>
  /\ Len(Applied(r1)) = 2

\* C2: an accumulated event without a filename comment whose file is a name
\* other than "typescript" appends its entire code to the content of file.
C2_WholeCodeAppended ==
  \A i \in 1..Len(r1.trace) :
    LET e == r1.trace[i]
        old == IF MapHas(e.before, e.chunk.file)
               THEN MapGet(e.before, e.chunk.file) ELSE <<>>
    IN  (/\ e.outcome = "applied"
         /\ ~HasMarker(e.chunk.code)
         /\ e.chunk.file # Typescript)
        => /\ MapHas(e.after, e.chunk.file)
           /\ MapGet(e.after, e.chunk.file) = old \o e.chunk.code

\* C3: an event whose file is "typescript" and whose code has no filename
\* comment leaves the table as it was and makes no onProgress call.
C3_TypescriptDiscarded ==
  \A i \in 1..Len(r1.trace) :
    LET e == r1.trace[i]
    IN  (/\ e.chunk.kind = "object"
         /\ e.chunk.code # Undefined
         /\ e.chunk.file = Typescript
         /\ ~HasMarker(e.chunk.code))
        => /\ e.after = e.before
           /\ e.calls = 0
           /\ e.outcome = "discarded"

\* A discarded event arrived after an accumulated one, and the table and the
\* snapshots are those the first event left.
C3_Witness ==
  /\ Len(r1.trace) = 2
  /\ r1.trace[1].outcome = "applied"
  /\ r1.trace[2].chunk.file = Typescript
  /\ ~HasMarker(r1.trace[2].chunk.code)
  /\ r1.files = r1.trace[1].after
  /\ Len(r1.progress) = 1

\* The k-th line of a text: what lies between its (k-1)-th and k-th line feed.
Feeds(text) == {i \in 1..Len(text) : text[i] = NL}
NthFeed(text, k) ==
  CHOOSE i \in Feeds(text) : Cardinality({j \in Feeds(text) : j <= i}) = k
CompleteLines(text) ==
  [k \in 1..Cardinality(Feeds(text)) |->
     SubSeq(text, (IF k = 1 THEN 0 ELSE NthFeed(text, k - 1)) + 1,
            NthFeed(text, k) - 1)]
Unfinished(text) ==
  IF Feeds(text) = {} THEN text
  ELSE SubSeq(text, NthFeed(text, Cardinality(Feeds(text))) + 1, Len(text))

Received(r) == SubSeq(r.wire, 1, r.pos)

\* The stream read in a single fragment up to where it has been read.
InOneFragment(r) ==
  readFragment([Idle(r.wire, r.callback) EXCEPT !.pc = "reading", !.pos = r.pos],
               Received(r))

\* C4: however the text received so far was cut into fragments, the lines
\* decoded are its line-feed-terminated lines, each once and in order, the
\* buffer is the unfinished rest, and the lines handled, the table and the
\* snapshots are those of the same text read in one fragment.
C4_FragmentationIndependent ==
  /\ r1.decoded = CompleteLines(Received(r1))
  /\ r1.buffer = Unfinished(Received(r1))
  /\ r1.trace = InOneFragment(r1).trace
  /\ r1.files = InOneFragment(r1).files
  /\ r1.progress = InOneFragment(r1).progress

\* A line that arrived in at least PiecesCap fragments was decoded once and
\* accumulated.
C4_Witness ==
  /\ r1.spread >= PiecesCap
  /\ Len(r1.decoded) = 1
  /\ Len(Applied(r1)) = 1

\* C5: a data line whose payload is not a record with code and file is the
\* last line handled: the operation has failed with the protocol error, has
\* returned nothing and holds no lock.
C5_MalformedPayloadFails ==
  \A i \in 1..Len(r1.trace) :
    LET e == r1.trace[i]
    IN  (/\ e.chunk.kind # "none"
         /\ \/ e.chunk.kind = "SyntaxError"
            \/ e.chunk.code = Undefined
            \/ e.chunk.file = Undefined)
        => /\ e.outcome = "error"
           /\ i = Len(r1.trace)
           /\ r1.pc = "failed"
           /\ r1.error = ParseErrorMessage
           /\ ~r1.returned
           /\ ~r1.locked

\* C6: the lock is held exactly while the stream is being read, it is never
\* released twice, and once the reader was acquired the operation ends (done,
\* protocol error, rejected read) with the lock released exactly once.
C6_LockReleasedOnce ==
  /\ r1.releases <= 1
  /\ r1.locked <=> r1.pc = "reading"
  /\ ~r1.acquired => r1.releases = 0
  /\ (r1.acquired /\ r1.pc \in {"done", "failed"}) =>
       (r1.releases = 1 /\ ~r1.locked)

\* The operation ended on a protocol error with the lock released.
C6_Witness ==
  /\ r1.acquired
  /\ r1.pc = "failed"
  /\ r1.error = ParseErrorMessage
  /\ r1.releases = 1

\* The snapshot of a table: its entries in order, a leading "/" taken off
\* each filename.
SnapshotOf(table) ==
  [j \in 1..Len(table) |->
     [filename |-> IF table[j].filename # <<>> /\ table[j].filename[1] = Slash
                   THEN SubSeq(table[j].filename, 2, Len(table[j].filename))
                   ELSE table[j].filename,
      content |-> table[j].content]]

ProgressCalls(id) ==
  Len(SelectSeq(log, LAMBDA c : c.ev = "progress" /\ c.id = id))

\* C7: a callback that returns has received one snapshot per accumulated
\* event, in arrival order, each the table as that event left it; lines that
\* were ignored or discarded made no call, and a request without a callback
\* made none at all.
C7_ProgressPerAppliedEvent ==
  /\ r1.callback = "returns" =>
       /\ Len(r1.progress) = Len(Applied(r1))
       /\ \A k \in 1..Len(r1.progress) :
            r1.progress[k] = SnapshotOf(Applied(r1)[k].after)
       /\ \A i \in 1..Len(r1.trace) :
            r1.trace[i].calls = (IF r1.trace[i].outcome = "applied" THEN 1 ELSE 0)
       /\ ProgressCalls(1) = Len(Applied(r1))
  /\ r1.callback = "absent" => (r1.progress = <<>> /\ ProgressCalls(1) = 0)

\* Two events were accumulated, two different snapshots were delivered and
\* the stream has ended.
C7_Witness ==
  /\ r1.callback = "returns"
  /\ r1.pc = "done"
  /\ Len(r1.progress) = 2
  /\ r1.progress[1] # r1.progress[2]

\* C8: on completion the result is the snapshot of the table as the last
\* accumulated event left it, the empty list if there was none; it is the
\* last snapshot a returning callback received.
C8_ReturnsFinalSnapshot ==
  r1.pc = "done" =>
    /\ r1.returned
    /\ r1.result = (IF Applied(r1) = <<>> THEN <<>>
                    ELSE SnapshotOf(Applied(r1)[Len(Applied(r1))].after))
    /\ r1.callback = "returns" =>
         r1.result = (IF r1.progress = <<>> THEN <<>>
                      ELSE r1.progress[Len(r1.progress)])

\* A completed stream returned two files to a caller that saw them arrive.
C8_Witness ==
  /\ r1.pc = "done"
  /\ r1.callback = "returns"
  /\ Len(r1.result) = 2
  /\ Len(r1.progress) = 2

\* The lines whose handling called onProgress.
Told(r) == SelectSeq(r.trace, LAMBDA e : e.calls = 1)

StrippedOnce(emitted, resolved) ==
  IF resolved # <<>> /\ resolved[1] = Slash
  THEN emitted = SubSeq(resolved, 2, Len(resolved))
  ELSE emitted = resolved

Emits(snapshot, table) ==
  /\ Len(snapshot) = Len(table)
  /\ \A j \in 1..Len(table) :
       /\ StrippedOnce(snapshot[j].filename, table[j].filename)
       /\ snapshot[j].content = table[j].content

\* C9: every snapshot handed to onProgress, and the result, lists the entries
\* of the table it was taken from with one leading "/" removed from each
\* filename and the content as it is in the table.
C9_LeadingSlashStripped ==
  /\ Len(Told(r1)) = Len(r1.progress)
  /\ \A k \in 1..Len(r1.progress) : Emits(r1.progress[k], Told(r1)[k].after)
  /\ r1.pc = "done" => Emits(r1.result, r1.files)

\* The file "/A" was delivered and returned as "A".
C9_Witness ==
  /\ r1.pc = "done"
  /\ r1.files = <<[filename |-> <<Slash, "A">>, content |-> <<"y">>]>>
  /\ r1.result = <<[filename |-> <<"A">>, content |-> <<"y">>]>>
  /\ r1.progress = <<r1.result>>

\* ------------------------------------------------- two overlapping requests

MaxLinesTwo == 1

InitTwo ==
  /\ \E s1, s2 \in Scripts(MaxLinesTwo) :
       req = [id \in ReqIds |->
                Idle(Wire(IF id = 1 THEN s1 ELSE s2, TRUE), "returns")]
  /\ log = <<>>
  /\ ui = NoPreview

NextTwo ==
  \E id \in ReqIds :
    \/ Start(id)
    \/ Respond(id)
    \/ Read(id)
    \/ ReadDone(id)
    \/ ReadReject(id)

SpecTwo == InitTwo /\ [][NextTwo]_vars

\* C10: once a request has started, no snapshot of a request started before
\* it is delivered.
C10_NoStaleProgress ==
  \A i, j \in 1..Len(log) :
    (/\ i < j
     /\ log[i].ev = "start"
     /\ log[j].ev = "progress"
     /\ log[j].id # log[i].id)
    => \E k \in (i + 1)..(j - 1) : log[k].ev = "start" /\ log[k].id = log[j].id

\* ------------------------------------------------ properties, continued

\* The table as the last line handled left it.
TableAfterLastLine(r) ==
  IF r.trace = <<>> THEN <<>> ELSE r.trace[Len(r.trace)].after

\* C11: when the stream ends, what follows the last line feed has not been
\* handled: the lines handled are the line-feed-terminated ones, the table,
\* the snapshots and the result are those they left, and no error is raised.
C11_ResidualDiscarded ==
  r1.pc = "done" =>
    /\ r1.buffer = Unfinished(r1.wire)
    /\ Len(r1.trace) = Cardinality(Feeds(r1.wire))
    /\ \A i \in 1..Len(r1.trace) : r1.trace[i].line = CompleteLines(r1.wire)[i]
    /\ r1.files = TableAfterLastLine(r1)
    /\ r1.result = SnapshotOf(TableAfterLastLine(r1))
    /\ Len(r1.progress) = Len(Told(r1))
    /\ r1.error = ""

\* The stream ended after a well-formed data record without a line feed:
\* nothing was accumulated and nothing delivered.
C11_Witness ==
  /\ r1.pc = "done"
  /\ r1.wire = LineMarker
  /\ r1.buffer = LineMarker
  /\ r1.files = <<>>
  /\ r1.progress = <<>>
  /\ r1.result = <<>>
  /\ r1.callback = "returns"

Answered(r) == r.pc \notin {"idle", "fetching"}

DetailPresent(response) == response.json \in {"detail", "emptyDetail"}

\* C12 as stated: the message of the error for a non-success status is the
\* detail of the response JSON if it has one, else the status text.
C12_MessageIsDetailOrStatusText ==
  (Answered(r1) /\ ~r1.response.ok) =>
    /\ r1.pc = "failed"
    /\ r1.error = (IF DetailPresent(r1.response)
                   THEN (IF r1.response.json = "detail" THEN DetailText ELSE "")
                   ELSE r1.response.statusText)

StatusMessages ==
  {<<"Not Found", "Failed to generate code: Not Found">>,
   <<"Internal Server Error", "Failed to generate code: Internal Server Error">>}

\* C12: a non-success status ends the operation before a reader is acquired,
\* a line handled or onProgress called, with the detail of the response JSON
\* as the message if it is a non-empty string and otherwise "Failed to
\* generate code: " followed by the status text; a success status without a
\* body ends it the same way with "No response body received".  The request
\* is sent once, and a failed operation takes no further step.
C12_TransportError ==
  /\ r1.fetches <= 1
  /\ r1.pc = "failed" => ~ENABLED Next
  /\ (Answered(r1) /\ ~r1.response.ok) =>
       /\ r1.pc = "failed"
       /\ ~r1.acquired /\ r1.releases = 0 /\ ~r1.returned
       /\ r1.trace = <<>> /\ r1.progress = <<>> /\ ProgressCalls(1) = 0
       /\ IF r1.response.json = "detail"
          THEN r1.error = DetailText
          ELSE <<r1.response.statusText, r1.error>> \in StatusMessages
  /\ (Answered(r1) /\ r1.response.ok /\ ~r1.response.body) =>
       /\ r1.pc = "failed"
       /\ ~r1.acquired /\ r1.releases = 0 /\ ~r1.returned
       /\ r1.trace = <<>> /\ r1.progress = <<>> /\ ProgressCalls(1) = 0
       /\ r1.error = NoBodyMessage

\* An error status whose JSON has no detail failed the request with the
\* message built from the status text.
C12_Witness ==
  /\ r1.pc = "failed"
  /\ ~r1.response.ok
  /\ r1.response.json = "noDetail"
  /\ r1.response.statusText = "Not Found"
  /\ r1.error = "Failed to generate code: Not Found"
  /\ r1.fetches = 1

\* --------------------------------------------- lines that are not payload

LineSpaces == <<" ", "\t">>
LineComment == <<":", " ", "ping">>
LineOtherField == <<"id", ":", " ", "1">>
LineNoSpace == <<"d", "a", "t", "a", ":">> \o Payload(CodeMarkerA, Typescript)
LineEmptyData == DataPrefix \o <<" ">>

CatalogFraming ==
  {LineBlank, LineSpaces, LineComment, LineOtherField, LineNoSpace,
   LineEmptyData, LineMarker, LinePlain}

ScriptsFraming(n) == UNION {[1..k -> CatalogFraming] : k \in 0..n}

InitFraming ==
  /\ \E script \in ScriptsFraming(MaxLines), terminated \in BOOLEAN,
        cb \in Callbacks :
       req = [id \in ReqIds |->
                IF id = 1 THEN Idle(Wire(script, terminated), cb)
                ELSE Idle(<<>>, "absent")]
  /\ log = <<>>
  /\ ui = NoPreview

SpecFraming == InitFraming /\ [][Next]_vars

\* A line that, the blanks around it aside, begins with `data: `.
BeginsWithData(line) ==
  LET t == Unpadded(line)
  IN  /\ Len(t) >= 6
      /\ t[1] = "d" /\ t[2] = "a" /\ t[3] = "t" /\ t[4] = "a" /\ t[5] = ":"
      /\ t[6] = " "

\* A `data: ` line with nothing but blanks after the prefix.
EmptyData(line) ==
  /\ Len(line) >= 6
  /\ SubSeq(line, 1, 6) = DataPrefix
  /\ \A i \in 7..Len(line) : IsWhitespace(line[i])

Extended(table, name, body) ==
  IF \E i \in 1..Len(table) : table[i].filename = name
  THEN [i \in 1..Len(table) |->
          IF table[i].filename = name
          THEN [filename |-> name, content |-> table[i].content \o body]
          ELSE table[i]]
  ELSE table \o <<[filename |-> name, content |-> body]>>

\* C18: an event whose code begins with `//` is accumulated under the rest of
\* that line without the blanks around it, whatever its file, "typescript"
\* included, and without that line in the content; so the stream of a marked
\* event for A followed by an unmarked "typescript" event ends with the table
\* holding A and the first event's body alone.
C18_MarkerNamesTheFile ==
  /\ \A i \in 1..Len(r1.trace) :
       LET e == r1.trace[i]
       IN  (e.chunk.kind = "object" /\ e.chunk.code # Undefined
              /\ HasMarker(e.chunk.code))
           => /\ e.outcome = "applied" \/ (e.outcome = "error" /\ e.calls = 1)
              /\ e.after =
                   Extended(e.before,
                            Unpadded(SubSeq(FirstLineOf(e.chunk.code), 3,
                                            Len(FirstLineOf(e.chunk.code)))),
                            RestAfterFirstLine(e.chunk.code))
  /\ (r1.pc = "done" /\ r1.wire = Wire(<<LineMarker, LineDiscard>>, TRUE)) =>
       r1.files = <<[filename |-> <<"A">>, content |-> <<"x">>]>>

\* The two-event stream has ended: the marked "typescript" event was
\* accumulated and the unmarked one discarded.
C18_Witness ==
  /\ r1.pc = "done"
  /\ r1.wire = Wire(<<LineMarker, LineDiscard>>, TRUE)
  /\ r1.trace[1].chunk.file = Typescript
  /\ r1.trace[1].outcome = "applied"
  /\ r1.trace[2].outcome = "discarded"
  /\ r1.result = <<[filename |-> <<"A">>, content |-> <<"x">>]>>

Distinct(snapshot) ==
  \A i, j \in 1..Len(snapshot) :
    snapshot[i].filename = snapshot[j].filename => i = j

\* C19: the filenames of every snapshot handed to onProgress and of the
\* result are pairwise distinct.
C19_SnapshotFilenamesDistinct ==
  /\ \A k \in 1..Len(r1.progress) : Distinct(r1.progress[k])
  /\ r1.pc = "done" => Distinct(r1.result)

Malformed(chunk) ==
  \/ chunk.kind = "SyntaxError"
  \/ chunk.code = Undefined
  \/ chunk.file = Undefined

\* C20: the operation fails with the protocol error only on a data line whose
\* payload is malformed; with the error raised the lock is released.
C20_ParseErrorOnlyForMalformedPayload ==
  r1.error = ParseErrorMessage =>
    /\ r1.trace # <<>>
    /\ r1.trace[Len(r1.trace)].chunk.kind # "none"
    /\ Malformed(r1.trace[Len(r1.trace)].chunk)
    /\ ~r1.locked /\ r1.releases = 1


\* ------------------------------------------------------------------ Preview
\* The Preview component in single-file mode: its props files and isLoading,
\* its state activeTab, statusMessages and previewLogs, the document of the
\* iframe, and the archive built by the last download.

MaxEvents == 3

StatusLog == <<"status.log">>
AppTsx == <<"App.tsx">>
AppJsx == <<"App.jsx">>
DotCss == <<".css">>

\* String.prototype.endsWith
endsWith(s, suffix) ==
  /\ Len(s) >= Len(suffix)
  /\ SubSeq(s, Len(s) - Len(suffix) + 1, Len(s)) = suffix

\* What find returns when no file satisfies the test.
NoFile == [filename |-> Undefined, content |-> Undefined]

\* Array.prototype.find, given the positions that satisfy the test: the
\* first element that does.
find(arr, hits) ==
  IF hits = {} THEN NoFile
  ELSE arr[CHOOSE i \in hits : \A j \in hits : i <= j]

\* The lines of the preview log.
LogStarting == <<"Starting preview generation...">>
LogScanning == <<"Scanning files...">>
LogNoApp == <<"No App component found">>
LogLooking == <<"Looking for files ending with App.tsx or App.jsx">>
LogPleaseAdd == <<"Please make sure you have an App component file">>
LogFoundApp == <<"Found App component">>
LogPreparing == <<"Preparing preview environment...">>
LogReady == <<"Preview ready!">>
LogWatching == <<"Watching for changes...">>
LogFoundCss(n) == <<"Found", ToString(n), "CSS files">>

\* The documents of the iframe: none yet, the diagnostic, and the preview
\* page, whose style element joins the style sheets and whose script is built
\* from the content of the App file.
NoDocument == [kind |-> "none", style |-> <<>>, app |-> Undefined]
NoAppDocument == [kind |-> "No App component found", style |-> <<>>,
                  app |-> Undefined]
previewHtml(appFile, cssFiles) ==
  [kind |-> "preview",
   style |-> join([i \in 1..Len(cssFiles) |-> cssFiles[i].content]),
   app |-> appFile.filename]

\* What the latest commit's preview build did, if it ran one.
NoBuild == [ran |-> FALSE, lines |-> <<>>]

NoDownload ==
  [done |-> FALSE, files |-> <<>>, zip |-> [entries |-> <<>>, added |-> <<>>]]

\* setPreviewLogs(prev => [...prev, ...lines])
appendLogs(u, lines) ==
  [u EXCEPT !.previewLogs = @ \o lines, !.build.lines = @ \o lines]

\* The iframe is rendered on the preview tab once there are files; the ref
\* is attached before the effects run.
iframeRendered(u) == u.activeTab = "preview" /\ Len(u.files) > 0

isAppFile(f) == endsWith(f.filename, AppTsx) \/ endsWith(f.filename, AppJsx)
isCssFile(f) == endsWith(f.filename, DotCss)


\* The preview effect that, having found no App file, goes on with the build.
previewEffectNoReturn(u) ==
  IF u.activeTab = "preview" /\ Len(u.files) > 0 /\ iframeRendered(u)
  THEN
    LET started == appendLogs([u EXCEPT !.build.ran = TRUE],
                              <<LogStarting, LogScanning>>)
        appFile == find(u.files, {i \in 1..Len(u.files) : isAppFile(u.files[i])})
        cssFiles == SelectSeq(u.files, isCssFile)
        missing == IF appFile = NoFile
                   THEN appendLogs(started, <<LogNoApp, LogLooking, LogPleaseAdd>>)
                   ELSE started
        found == appendLogs(missing,
                            <<LogFoundApp, LogFoundCss(Len(cssFiles)),
                              LogPreparing>>)
        shown == [found EXCEPT !.srcdoc =
                    IF appFile = NoFile
                    THEN [kind |-> "preview", style |-> <<>>, app |-> Undefined]
                    ELSE previewHtml(appFile, cssFiles)]
    IN  appendLogs(shown, <<LogReady, LogWatching>>)
  ELSE u

\* useEffect(..., [activeTab, files]): the preview build.
previewEffect(u) ==
  IF u.activeTab = "preview" /\ Len(u.files) > 0 /\ iframeRendered(u)
  THEN
    LET started == appendLogs([u EXCEPT !.build.ran = TRUE],
                              <<LogStarting, LogScanning>>)
        appFile == find(u.files, {i \in 1..Len(u.files) : isAppFile(u.files[i])})
        cssFiles == SelectSeq(u.files, isCssFile)
    IN  IF appFile = NoFile
        THEN [appendLogs(started, <<LogNoApp, LogLooking, LogPleaseAdd>>)
                EXCEPT !.srcdoc = NoAppDocument]
        ELSE
          LET found == appendLogs(started,
                                  <<LogFoundApp, LogFoundCss(Len(cssFiles)),
                                    LogPreparing>>)
              shown == [found EXCEPT !.srcdoc = previewHtml(appFile, cssFiles)]
          IN  appendLogs(shown, <<LogReady, LogWatching>>)
  ELSE u

\* useEffect(..., [activeTab]): setPreviewLogs([]) on the preview tab.
resetLogsEffect(u) ==
  IF u.activeTab = "preview" THEN [u EXCEPT !.previewLogs = <<>>] ELSE u

isStatusLog(f) == f.filename = StatusLog

\* if (content.code)
truthy(v) == v # Undefined /\ v # <<>>

notBlank(msg) == trim(msg) # <<>>

\* useEffect(..., [files]): the status messages follow status.log.
statusEffect(u) ==
  LET statusLog == find(u.files, {i \in 1..Len(u.files) : isStatusLog(u.files[i])})
  IN  IF statusLog = NoFile THEN u
      ELSE LET content == JSONparse(statusLog.content)
           IN  IF content.kind = "SyntaxError"
               THEN [u EXCEPT !.statusMessages =
                       SelectSeq(split(statusLog.content), notBlank)]
               ELSE IF truthy(content.code)
               THEN [u EXCEPT !.statusMessages = Append(@, content.code)]
               ELSE u

\* useEffect(..., [isLoading]): setStatusMessages([]) while loading.
loadingEffect(u) ==
  IF u.isLoading THEN [u EXCEPT !.statusMessages = <<>>] ELSE u

\* One commit: the render, then the effects whose dependencies changed, in
\* the order of their declaration; the state updates they queue are applied
\* in the order they were queued.
commit(u, changed) ==
  LET rendered == [u EXCEPT !.srcdoc = IF iframeRendered(u) THEN @ ELSE NoDocument,
                            !.build = NoBuild]
      c1 == IF changed \cap {"activeTab", "files"} # {}
            THEN previewEffect(rendered) ELSE rendered
      c2 == IF "activeTab" \in changed THEN resetLogsEffect(c1) ELSE c1
      c3 == IF "files" \in changed THEN statusEffect(c2) ELSE c2
  IN  IF "isLoading" \in changed THEN loadingEffect(c3) ELSE c3

\* files.filter(file => file.filename !== 'status.log'), the list shown.
fileList(files) == SelectSeq(files, LAMBDA f : ~isStatusLog(f))

\* new JSZip()
NewZip == [entries |-> <<>>, added |-> <<>>]

\* JSZip.file(name, data): the archive keeps one entry per name, the data
\* of the latest call.
zipFile(zip, name, data) ==
  [entries |-> MapSet(zip.entries, name, data),
   added |-> Append(zip.added, [filename |-> name, content |-> data])]

\* A forEach that adds every file, status.log too.
RECURSIVE zipFilesAll(_, _)
zipFilesAll(zip, files) ==
  IF files = <<>> THEN zip
  ELSE zipFilesAll(zipFile(zip, Head(files).filename, Head(files).content),
                   Tail(files))

\* files.forEach(file => { if (file.filename !== 'status.log') zip.file(...) })
RECURSIVE zipFiles(_, _)
zipFiles(zip, files) ==
  IF files = <<>> THEN zip
  ELSE zipFiles(IF Head(files).filename # StatusLog
                THEN zipFile(zip, Head(files).filename, Head(files).content)
                ELSE zip,
                Tail(files))

handleDownload(u) ==
  [u EXCEPT !.download = [done |-> TRUE, files |-> u.files,
                          zip |-> zipFiles(NewZip, u.files)]]


\* The file lists the parent passes: snapshots as generateCodeFromPrompt
\* reports them, the last one with two entries of one name.
File(filename, content) == [filename |-> filename, content |-> content]
FileApp == File(<<"src", "/", "App.tsx">>, <<"x">>)
FileMyApp == File(<<"My", "App.jsx">>, <<"w">>)
FileCss == File(<<"index", ".css">>, <<"c">>)
FileMain == File(<<"main.tsx">>, <<"y">>)
FileStatusA == File(StatusLog, <<"{", "a", "}">>)
FileStatusB == File(StatusLog, <<"{", "b", "}">>)
FileStatusText == File(StatusLog, <<"s1", NL, " ", NL, "s2">>)
FileA1 == File(<<"A">>, <<"y">>)
FileA2 == File(<<"A">>, <<"x">>)

FileLists ==
  {<<>>, <<FileApp>>, <<FileCss, FileApp>>, <<FileMain, FileMyApp>>,
   <<FileMain>>, <<FileMain, FileCss>>,
   <<FileStatusA>>, <<FileStatusA, FileApp>>, <<FileStatusB, FileApp>>,
   <<FileStatusText, FileMain>>, <<FileA1, FileA2>>}

\* The component before its first commit.
Unmounted(files, isLoading) ==
  [mounted |-> TRUE, files |-> files, isLoading |-> isLoading,
   activeTab |-> "code", statusMessages |-> <<>>, previewLogs |-> <<>>,
   srcdoc |-> NoDocument, build |-> NoBuild, download |-> NoDownload,
   events |-> 0]

\* The first commit runs every effect.
InitPreview ==
  /\ req = [id \in ReqIds |-> Idle(<<>>, "absent")]
  /\ log = <<>>
  /\ \E files \in FileLists, isLoading \in BOOLEAN :
       ui = commit(Unmounted(files, isLoading),
                   {"activeTab", "files", "isLoading"})

\* A click on the other tab.
SetActiveTab(tab) ==
  /\ ui.events < MaxEvents
  /\ tab # ui.activeTab
  /\ ui' = commit([ui EXCEPT !.activeTab = tab, !.events = @ + 1],
                  {"activeTab"})
  /\ UNCHANGED <<req, log>>

\* The parent passes a new file list.
FilesChange(files) ==
  /\ ui.events < MaxEvents
  /\ ui' = commit([ui EXCEPT !.files = files, !.events = @ + 1], {"files"})
  /\ UNCHANGED <<req, log>>

\* The parent starts or ends loading.
LoadingChange ==
  /\ ui.events < MaxEvents
  /\ ui' = commit([ui EXCEPT !.isLoading = ~@, !.events = @ + 1],
                  {"isLoading"})
  /\ UNCHANGED <<req, log>>

\* A click on Download, shown once there are files.
Download ==
  /\ ui.events < MaxEvents
  /\ Len(ui.files) > 0
  /\ ui' = handleDownload([ui EXCEPT !.events = @ + 1])
  /\ UNCHANGED <<req, log>>

NextPreview ==
  \/ \E tab \in {"code", "preview"} : SetActiveTab(tab)
  \/ \E files \in FileLists : FilesChange(files)
  \/ LoadingChange
  \/ Download

SpecPreview == InitPreview /\ [][NextPreview]_vars


\* ------------------------------------------------------ Preview properties

\* The files of a list that are not status.log, by position.
Archivable(files) == {i \in 1..Len(files) : files[i].filename # StatusLog}

\* The content a list of files gives a name: that of its last file of the name.
LastContent(files, name) ==
  files[CHOOSE i \in 1..Len(files) :
          /\ files[i].filename = name
          /\ \A j \in (i + 1)..Len(files) : files[j].filename # name].content

NoAppAmong(files) ==
  \A i \in 1..Len(files) :
    LET name == files[i].filename
    IN  name[Len(name)] \notin {"App.tsx", "App.jsx"}

Emitted(line) == \E i \in 1..Len(ui.build.lines) : ui.build.lines[i] = line

\* C15: a preview build over files none of which is named ...App.tsx or
\* ...App.jsx leaves the diagnostic document in the iframe, injects no script
\* built from the files and emits no `Preview ready!` line.
C15_NoAppFileAbortsBuild ==
  (ui.build.ran /\ NoAppAmong(ui.files)) =>
    /\ ui.srcdoc = NoAppDocument
    /\ ui.srcdoc.kind # "preview"
    /\ ~Emitted(LogReady)
    /\ ~Emitted(LogPreparing)
    /\ Emitted(LogNoApp)

C15_Witness ==
  /\ ui.build.ran
  /\ ui.files = <<FileMain, FileCss>>
  /\ ui.activeTab = "preview"
  /\ ui.srcdoc = NoAppDocument

\* The lines of a build that found its App file, as they are to be shown.
ProgressLines(files) ==
  <<LogStarting, LogScanning, LogFoundApp,
    LogFoundCss(Cardinality({i \in 1..Len(files) :
                               LET name == files[i].filename
                               IN  name[Len(name)] = ".css"})),
    LogPreparing, LogReady, LogWatching>>

EndsWithLines(logs, lines) ==
  /\ Len(logs) >= Len(lines)
  /\ SubSeq(logs, Len(logs) - Len(lines) + 1, Len(logs)) = lines

\* C16: a preview build that found the App file leaves the preview log
\* ending with the lines of that build: scan, entry point found, prepare,
\* ready, in this order.
C16_BuildLeavesItsProgressLines ==
  (ui.build.ran /\ ~NoAppAmong(ui.files)) =>
    EndsWithLines(ui.previewLogs, ProgressLines(ui.files))

\* The content of status.log in a file list, if it has one.
StatusContent(files) ==
  IF \E i \in 1..Len(files) : files[i].filename = StatusLog
  THEN files[CHOOSE i \in 1..Len(files) :
               /\ files[i].filename = StatusLog
               /\ \A j \in 1..(i - 1) : files[j].filename # StatusLog].content
  ELSE Undefined

HasCode(content) ==
  /\ content # Undefined
  /\ JSONparse(content).kind = "object"
  /\ JSONparse(content).code \notin {Undefined, <<>>}

NotJSON(content) ==
  content # Undefined /\ JSONparse(content).kind = "SyntaxError"

NonBlankLines(content) ==
  SelectSeq(split(content), LAMBDA l : \E i \in 1..Len(l) : ~IsWhitespace(l[i]))

LoadingStarts == ~ui.isLoading /\ ui'.isLoading

\* C17: an update of status.log to a JSON object with a code appends that
\* code, once, to the status messages, which are left alone while status.log
\* stays as it is; a status.log that is not JSON replaces them by its
\* non-blank lines; they are cleared when loading starts; status.log is not
\* in the file list shown.
C17_StatusMessagesFollowStatusLog ==
  [][LET before == StatusContent(ui.files)
         after == StatusContent(ui'.files)
     IN  /\ (HasCode(after) /\ after # before) =>
               ui'.statusMessages =
                 Append(ui.statusMessages, JSONparse(after).code)
         /\ (HasCode(after) /\ after = before /\ ~LoadingStarts) =>
               ui'.statusMessages = ui.statusMessages
         /\ (NotJSON(after) /\ ui'.files # ui.files) =>
               ui'.statusMessages = NonBlankLines(after)
         /\ LoadingStarts => ui'.statusMessages = <<>>
         /\ \A i \in 1..Len(fileList(ui'.files)) :
               fileList(ui'.files)[i].filename # StatusLog]_vars

====
